---- MODULE Spec2Model ----
(***************************************************************************)
(* Stegano-Studio: the payload transport layer of stegano_core.py (the     *)
(* envelope, the cipher framing, the EOF container codec and the LSB       *)
(* codec) and the extraction and embedding routes of app.py.               *)
(*                                                                         *)
(* A byte is a number in 0..255 and a byte buffer is a sequence of bytes.  *)
(* Python offsets are 0-based; sequences here are 1-based, so the slice    *)
(* b[a:z] is Slice(b, a, z).  Every function of the source that can raise  *)
(* is an operator that yields a record [ok, val, exc, msg]: ok with the    *)
(* returned value, or the exception's type and message.                    *)
(***************************************************************************)
EXTENDS Integers, Sequences, FiniteSets, TLC

\* ------------------------------------------------------------------ bounds
MaxPacks == 2
MaxEmbeds == 2
MaxEmbedRequests == 1

\* --------------------------------------------------------------- constants
MARKER == <<83, 84, 69, 71, 48>>
LENGTH_LEN == 8

\* Python's integers are unbounded; a decoded length is kept exactly up to
\* Huge and saturates there.  Every buffer of the model is far shorter than
\* Huge, so every comparison of a length with a buffer size is the code's.
Huge == 1048576

\* ----------------------------------------------------------------- helpers
Min(a, b) == IF a < b THEN a ELSE b
Max(a, b) == IF a > b THEN a ELSE b

\* b[a:z] of Python for 0 <= a, 0 <= z: clamped to the buffer, never raising.
Slice(b, a, z) == SubSeq(b, a + 1, Min(z, Len(b)))

\* b.startswith(p)
startswith(b, p) == Len(b) >= Len(p) /\ SubSeq(b, 1, Len(p)) = p

\* A returned value, and an exception raised at line `at` of its source file.
Ok(v) == [ok |-> TRUE, val |-> v, at |-> 0, exc |-> "", msg |-> ""]
Raise(line, e, m) == [ok |-> FALSE, val |-> <<>>, at |-> line, exc |-> e, msg |-> m]

\* n.to_bytes(k, "big")
RECURSIVE to_bytes(_, _)
to_bytes(n, k) == IF k = 0 THEN <<>>
                  ELSE Append(to_bytes(n \div 256, k - 1), n % 256)

\* int.from_bytes(b, "big"), saturating at Huge
RECURSIVE from_bytes(_)
from_bytes(b) == IF Len(b) = 0 THEN 0
                 ELSE Min(Huge, from_bytes(SubSeq(b, 1, Len(b) - 1)) * 256 + b[Len(b)])

\* m occurs in full at offset i
OccursAt(full, m, i) == SubSeq(full, i + 1, i + Len(m)) = m

\* full.rfind(m) restricted to the offsets lo..hi: the highest offset at which
\* m occurs, or -1.  The upper half of the range is searched first; the
\* range is halved so that the evaluation depth is logarithmic.
RECURSIVE rfindIn(_, _, _, _)
rfindIn(full, m, lo, hi) ==
    IF hi < lo THEN -1
    ELSE IF lo = hi THEN (IF OccursAt(full, m, lo) THEN lo ELSE -1)
    ELSE LET mid == (lo + hi) \div 2
             r   == rfindIn(full, m, mid + 1, hi)
         IN  IF r # -1 THEN r ELSE rfindIn(full, m, lo, mid)

\* full.find(m) restricted to lo..hi: the lowest offset instead
RECURSIVE findIn(_, _, _, _)
findIn(full, m, lo, hi) ==
    IF hi < lo THEN -1
    ELSE IF lo = hi THEN (IF OccursAt(full, m, lo) THEN lo ELSE -1)
    ELSE LET mid == (lo + hi) \div 2
             r   == findIn(full, m, lo, mid)
         IN  IF r # -1 THEN r ELSE findIn(full, m, mid + 1, hi)

rfind_first(full, m) == findIn(full, m, 0, Len(full) - Len(m))

rfind(full, m) == rfindIn(full, m, 0, Len(full) - Len(m))

\* ------------------------------------------------------- EOF mode (append)
pack_stego(carrier_bytes, payload) ==
    LET ln == to_bytes(Len(payload), LENGTH_LEN)
    IN  carrier_bytes \o MARKER \o ln \o payload

unpack_stego(full) ==
    LET idx == rfind(full, MARKER) IN
    IF idx = -1 \/ idx + Len(MARKER) + LENGTH_LEN > Len(full)
    THEN Raise(131, "ValueError", "Marker not found or truncated.")
    ELSE LET ln_off == idx + Len(MARKER)
             ln     == from_bytes(Slice(full, ln_off, ln_off + LENGTH_LEN))
             start  == ln_off + LENGTH_LEN
             end    == start + ln
         IN  IF end > Len(full)
             THEN Raise(137, "ValueError", "Invalid embedded length (corrupted container).")
             ELSE Ok(Slice(full, start, end))

\* ------------------------------- key derivation + encryption/decryption
SALT_LEN == 16
NONCE_LEN == 12
ENCR == <<69, 78, 67, 82>>
PLND == <<80, 76, 78, 68>>

\* The cryptography package is modelled by its contract with toy arithmetic.
\* hash16 is a keyed polynomial hash over the bytes b[i..]; for fixed bytes it
\* is a bijection of its start value h, which is never negative and is
\* evaluated at every step.
RECURSIVE hash16(_, _, _)
hash16(h, b, i) == IF h < 0 \/ i > Len(b) THEN h
                   ELSE hash16((h * 131 + b[i]) % 65521, b, i + 1)

\* PBKDF2HMAC(SHA256, length=32, salt, iterations).derive(password.encode()):
\* a key that depends on every byte of the password and of the salt.
derive_key(password, salt) == hash16(hash16(7, password, 1), <<255>> \o salt, 1)

\* The authentication tag of AES-GCM: 16 bytes that depend on the key, the
\* nonce and every ciphertext byte.
gcm_tag(key, nonce, body) ==
    to_bytes(hash16(hash16(key, nonce, 1), <<255>> \o body, 1), 16)

\* The key stream byte at position i.
gcm_stream(key, nonce, i) == hash16(key, nonce \o <<i % 256>>, 1) % 256

\* AESGCM(key).encrypt(nonce, data, None): the data under the key stream,
\* then the tag.
aesgcm_encrypt(key, nonce, data) ==
    LET body == [ i \in 1..Len(data) |->
                    (data[i] + gcm_stream(key, nonce, i)) % 256 ] \o <<>>
    IN  body \o gcm_tag(key, nonce, body)

\* AESGCM(key).decrypt(nonce, data, None), raising inside line 121: the
\* package rejects a nonce outside 8..128 bytes, then data shorter than a
\* tag, then a tag that does not verify.
aesgcm_decrypt(key, nonce, data) ==
    IF Len(nonce) < 8 \/ Len(nonce) > 128
    THEN Raise(121, "ValueError", "Nonce must be between 8 and 128 bytes")
    ELSE IF Len(data) < 16 THEN Raise(121, "InvalidTag", "")
    ELSE LET body == SubSeq(data, 1, Len(data) - 16)
             tag  == SubSeq(data, Len(data) - 15, Len(data))
         IN  IF tag # gcm_tag(key, nonce, body) THEN Raise(121, "InvalidTag", "")
             ELSE Ok([ i \in 1..Len(body) |->
                         (body[i] + 256 - gcm_stream(key, nonce, i)) % 256 ] \o <<>>)

\* the envelope with nonce and salt in each other's place
encrypt_payload_swapped(payload, password, salt, nonce) ==
    LET key == derive_key(password, salt)
        ct  == aesgcm_encrypt(key, nonce, payload)
    IN  ENCR \o nonce \o salt \o ct

\* encrypt_payload; salt and nonce are what secrets.token_bytes returned.
encrypt_payload(payload, password, salt, nonce) ==
    LET key == derive_key(password, salt)
        ct  == aesgcm_encrypt(key, nonce, payload)
    IN  ENCR \o salt \o nonce \o ct

\* The outcome r of decrypt_payload together with its locals salt, nonce and
\* ct as sliced, and whether derive_key and AESGCM were called with them.
DecExit(r, salt, nonce, ct, called) ==
    [ok |-> r.ok, val |-> r.val, at |-> r.at, exc |-> r.exc, msg |-> r.msg,
     salt |-> salt, nonce |-> nonce, ct |-> ct, called |-> called]

decrypt_payload(enc_bytes, password) ==
    IF ~startswith(enc_bytes, ENCR)
    THEN DecExit(Raise(114, "ValueError", "Payload not encrypted or invalid header."),
                 <<>>, <<>>, <<>>, FALSE)
    ELSE LET off0  == 4
             salt  == Slice(enc_bytes, off0, off0 + SALT_LEN)
             off1  == off0 + SALT_LEN
             nonce == Slice(enc_bytes, off1, off1 + NONCE_LEN)
             off2  == off1 + NONCE_LEN
             ct    == Slice(enc_bytes, off2, Len(enc_bytes))
             key   == derive_key(password, salt)
         IN  DecExit(aesgcm_decrypt(key, nonce, ct), salt, nonce, ct, TRUE)

\* ---------------------------------------------------- images (PIL, numpy)
\* An image file is modelled as an uncompressed raster: the 4-byte signature
\* b"\x89PNG", one byte each for width and height, then the W*H*3 channel
\* bytes in row-major RGB order.  Image.open(...).convert("RGB") followed by
\* np.array(img).flatten() yields the channel bytes; bytes after the raster
\* are ignored by the decoder, as PIL ignores bytes after the image's end.
PNG_SIG == <<137, 80, 78, 71>>

decode_image(b) ==
    IF /\ startswith(b, PNG_SIG)
       /\ Len(b) >= 6
       /\ Len(b) >= 6 + b[5] * b[6] * 3
    THEN Ok([w |-> b[5], h |-> b[6], flat |-> SubSeq(b, 7, 6 + b[5] * b[6] * 3)])
    ELSE Raise(178, "UnidentifiedImageError", "cannot identify image file")

\* Image.fromarray(flat.reshape(shape)).save(out, format="PNG"): lossless.
encode_png(w, h, flat) == PNG_SIG \o <<w, h>> \o flat

\* ----------------------------------------------------- LSB mode (pixel LSB)
\* A bit string is a sequence of 0 and 1, for the characters '0' and '1'.
Pow2(k) == CASE k = 0 -> 1 [] k = 1 -> 2 [] k = 2 -> 4 [] k = 3 -> 8
             [] k = 4 -> 16 [] k = 5 -> 32 [] k = 6 -> 64 [] k = 7 -> 128

\* "".join(f"{byte:08b}" for byte in b): most significant bit first
_to_bitstring(b) ==
    [ k \in 1..(8 * Len(b)) |->
        (b[((k - 1) \div 8) + 1] \div Pow2(7 - ((k - 1) % 8))) % 2 ] \o <<>>

\* the same byte read least significant bit first
int2_lsb_first(bits, i) ==
    bits[i + 8] * 128 + bits[i + 7] * 64 + bits[i + 6] * 32 + bits[i + 5] * 16
    + bits[i + 4] * 8 + bits[i + 3] * 4 + bits[i + 2] * 2 + bits[i + 1]

\* int(bits[i:i+8], 2)
int2(bits, i) ==
    bits[i + 1] * 128 + bits[i + 2] * 64 + bits[i + 3] * 32 + bits[i + 4] * 16
    + bits[i + 5] * 8 + bits[i + 6] * 4 + bits[i + 7] * 2 + bits[i + 8]

_from_bitstring(bits) ==
    IF Len(bits) % 8 # 0
    THEN Raise(146, "ValueError", "Bitstring length not multiple of 8")
    ELSE Ok([ k \in 1..(Len(bits) \div 8) |-> int2(bits, 8 * (k - 1)) ] \o <<>>)

\* A password is a string, modelled as the sequence of its character codes.
\* hashlib.sha256(password.encode()).digest()[:8] as a big-endian integer is
\* modelled by a 16-bit polynomial hash of the characters: deterministic and
\* sensitive to every character, injective on the passwords of the model.
None == -1

sha256_8(password) == hash16(7, password, 1)

_seed_from_password(password) ==
    IF Len(password) = 0 THEN None
    ELSE sha256_8(password)

\* random.Random(seed) is modelled by a linear congruential generator of
\* modulus 65537 (the Mersenne Twister itself is out of reach); what the
\* codec relies on is kept: the ordering is a function of (N, seed) alone and
\* the shuffle is the library's Fisher-Yates loop over the entire range.
\* A generator state steps once per draw; randbelow(n) is the state mod n.
rng_next(s) == (75 * s + 74) % 65537

\* One iteration of shuffle's loop body at index i:
\*     j = randbelow(i + 1); x[i], x[j] = x[j], x[i]
\* st = <<x, generator state>>.
shuffle_step(st, i) ==
    LET s2 == rng_next(st[2])
        j  == s2 % (i + 1)
        x  == st[1]
    IN  <<[x EXCEPT ![i + 1] = x[j + 1], ![j + 1] = x[i + 1]], s2>>

\* for i in reversed(range(lo, hi + 1)): the iterations hi, hi-1, ..., lo in
\* that order.  The range is split in two so that the evaluation depth is
\* logarithmic; the upper half is completed before the lower half starts.
RECURSIVE shuffle_loop(_, _, _)
shuffle_loop(st, hi, lo) ==
    IF hi < lo THEN st
    ELSE IF hi = lo THEN shuffle_step(st, hi)
    ELSE LET mid   == (hi + lo) \div 2
             upper == shuffle_loop(st, hi, mid + 1)
         IN  IF upper[2] >= 0 THEN shuffle_loop(upper, mid, lo) ELSE upper

\* rng = random.Random(seed); rng.shuffle(x)
shuffle(x, seed) == shuffle_loop(<<x, seed % 65537>>, Len(x) - 1, 1)[1]

\* list(range(n))
range(n) == [ k \in 1..n |-> k - 1 ] \o <<>>

\* indices = list(range(n)); seed = _seed_from_password(password);
\* if seed is not None: random.Random(seed).shuffle(indices)
indices_of(n, password) ==
    LET seed == _seed_from_password(password)
    IN  IF seed # None THEN shuffle(range(n), seed) ELSE range(n)

\* the write without the mask: flat[idx] = int(bit)
write_step_unmasked(flat, indices, bits, i) ==
    LET idx == indices[i + 1]
    IN  [flat EXCEPT ![idx + 1] = bits[i + 1]]

\* One iteration of embed_lsb's write loop for bit number i (0-based):
\*     idx = indices[i]; flat[idx] = (flat[idx] & 0xFE) | int(bit)
write_step(flat, indices, bits, i) ==
    LET idx == indices[i + 1]
    IN  [flat EXCEPT ![idx + 1] = (flat[idx + 1] - (flat[idx + 1] % 2)) + bits[i + 1]]

\* for i, bit in enumerate(bits), iterations lo..hi in rising order, split in
\* two as shuffle_loop is.
RECURSIVE write_loop(_, _, _, _, _)
write_loop(flat, indices, bits, lo, hi) ==
    IF hi < lo THEN flat
    ELSE IF hi = lo THEN write_step(flat, indices, bits, lo)
    ELSE LET mid   == (hi + lo) \div 2
             lower == write_loop(flat, indices, bits, lo, mid)
         IN  IF Len(lower) >= 0 THEN write_loop(lower, indices, bits, mid + 1, hi)
             ELSE lower

\* the capacity rounded up instead of down
lsb_capacity_bytes_ceil(carrier_bytes) ==
    LET img == decode_image(carrier_bytes) IN
    IF ~img.ok THEN 0
    ELSE LET total_bits == img.val.w * img.val.h * 3
         IN  (total_bits + 7) \div 8

lsb_capacity_bytes(carrier_bytes) ==
    LET img == decode_image(carrier_bytes) IN
    IF ~img.ok THEN 0
    ELSE LET total_bits == img.val.w * img.val.h * 3
         IN  total_bits \div 8

\* --------------------------------------------------------------- passwords
PwNone   == <<>>
PwWeak   == <<97>>
PwStrong == <<65, 98, 99, 100, 101, 102, 49, 33, 120, 121>>

Passwords == { PwNone, PwWeak, PwStrong }

\* ----------------------------------------------------------- image inputs
\* Pixel contents: every channel byte 255, or a byte pattern of mixed parity.
Mixed(n) == [ k \in 1..n |-> (k * 37 + 11) % 256 ] \o <<>>
White(n) == [ k \in 1..n |-> 255 ] \o <<>>

\* A pixel array whose least significant bits, in sequential order, spell the
\* bytes hdr and are 0 after them.
Spelling(n, hdr) ==
    LET hb == _to_bitstring(hdr)
    IN  [ k \in 1..n |-> IF k <= Len(hb) THEN 200 + hb[k] ELSE 200 ] \o <<>>

\* Image carriers: 2x2 (too small for a header), 5x7 (105 bits: 13 bytes and
\* one bit over), 6x8 (144 bits: exactly 18 bytes), a 5x7 image that was never
\* embedded into but whose bits spell a marker and the length 200, and 30x30.
Images ==
    { encode_png(2, 2, White(12)),
      encode_png(5, 7, Mixed(105)),
      encode_png(6, 8, White(144)),
      encode_png(5, 7, Spelling(105, MARKER \o <<0, 0, 0, 0, 0, 0, 0, 200>>)),
      encode_png(30, 30, Mixed(2700)) }

\* A buffer that is no image: b"hello"
NotAnImage == <<104, 101, 108, 108, 111>>

\* The orderings of the sizes and passwords above, each computed once.
Sizes == { 12, 105, 144, 168, 507, 2700 }

OrderTable == [ n \in Sizes, pw \in Passwords |-> indices_of(n, pw) ]

ordering(n, password) ==
    IF n \in Sizes /\ password \in Passwords THEN OrderTable[n, password]
    ELSE indices_of(n, password)

\* The outcome r of embed_lsb together with its local pixel array `flat` as it
\* is when the function returns or raises.
Exit(r, flat) ==
    [ok |-> r.ok, val |-> r.val, at |-> r.at, exc |-> r.exc, msg |-> r.msg,
     flat |-> flat]

\* embed_lsb with the capacity check after the write loop, which then writes
\* the bits that fit
embed_lsb_late_check(carrier_bytes, payload, password) ==
    LET img == decode_image(carrier_bytes) IN
    IF ~img.ok THEN Exit(img, <<>>)
    ELSE
    LET flat == img.val.flat
        bits == _to_bitstring(payload)
        indices == ordering(Len(flat), password)
        written == write_loop(flat, indices, bits, 0, Min(Len(bits), Len(flat)) - 1)
    IN  IF Len(bits) > Len(flat)
        THEN Exit(Raise(184, "ValueError", "Payload too large for image capacity."),
                  written)
        ELSE Exit(Ok(encode_png(img.val.w, img.val.h, written)), written)

embed_lsb(carrier_bytes, payload, password) ==
    LET img == decode_image(carrier_bytes) IN
    IF ~img.ok THEN Exit(img, <<>>)
    ELSE
    LET flat == img.val.flat
        bits == _to_bitstring(payload)
    IN  IF Len(bits) > Len(flat)
        THEN Exit(Raise(184, "ValueError", "Payload too large for image capacity."),
                  flat)
        ELSE LET indices == ordering(Len(flat), password)
                 written == write_loop(flat, indices, bits, 0, Len(bits) - 1)
             IN  Exit(Ok(encode_png(img.val.w, img.val.h, written)), written)

\* a marker failure that tells a keyed read from an unkeyed one
MarkerError_leaky(header_bytes, password) ==
    IF Len(password) = 0
    THEN Raise(230, "ValueError", "Marker not found in LSB data.")
    ELSE Raise(230, "ValueError", "Wrong password.")

\* raise ValueError("Marker not found in LSB data.")
MarkerError(header_bytes, password) ==
    Raise(230, "ValueError", "Marker not found in LSB data.")

\* the bits read in sequential order whatever the ordering
read_bits_sequential(data, indices, n) ==
    [ i \in 1..n |-> data[i] % 2 ] \o <<>>

\* "".join(str(int(data[indices[i]] & 1)) for i in range(n))
read_bits(data, indices, n) ==
    [ i \in 1..n |-> data[indices[i] + 1] % 2 ] \o <<>>

extract_lsb(stego_bytes, password) ==
    LET img == decode_image(stego_bytes) IN
    IF ~img.ok THEN img
    ELSE
    LET data == img.val.flat
        indices == ordering(Len(data), password)
        header_bytes_len == Len(MARKER) + LENGTH_LEN
        header_bits_len == header_bytes_len * 8
    IN  IF header_bits_len > Len(indices)
        THEN Raise(225, "ValueError",
                   "Image too small or corrupted (can't read header).")
        ELSE
        LET header_bits == read_bits(data, indices, header_bits_len)
            header_bytes == _from_bitstring(header_bits)
        IN  IF ~header_bytes.ok THEN header_bytes
            ELSE IF ~startswith(header_bytes.val, MARKER)
            THEN MarkerError(header_bytes.val, password)
            ELSE
            LET ln == from_bytes(Slice(header_bytes.val, Len(MARKER),
                                       Len(MARKER) + LENGTH_LEN))
                payload_total_bytes == header_bytes_len + ln
                total_bits_needed == payload_total_bytes * 8
            IN  IF total_bits_needed > Len(indices)
                THEN Raise(236, "ValueError",
                           "Declared payload length exceeds image capacity or is corrupted.")
                ELSE _from_bitstring(read_bits(data, indices, total_bits_needed))

\* payload_for_lsb = MARKER + len(headered).to_bytes(LENGTH_LEN, "big") + headered
frame_of(headered) == MARKER \o to_bytes(Len(headered), LENGTH_LEN) \o headered

\* ------------------------------------------------------------ app.py routes
\* A response of a route: the HTTP status, the error message in parts (str(e)
\* of a wrapped exception is one part), and the bytes sent.  A route that goes
\* on to zipfile.ZipFile(data) without having failed has status 0 and `data`
\* is what it hands to zipfile; `codec` and `recovered` are the codec it used
\* and what that codec returned.
Reply(status, error, data) ==
    [status |-> status, error |-> error, data |-> data,
     codec |-> "", recovered |-> <<>>]

Handed(data, codec, recovered) ==
    [status |-> 0, error |-> <<>>, data |-> data,
     codec |-> codec, recovered |-> recovered]

Sent(data, codec, recovered) ==
    [status |-> 200, error |-> <<>>, data |-> data,
     codec |-> codec, recovered |-> recovered]

\* request.files.get(...) found no file
NoFile == <<-1>>

\* re.search of a character class over the password
HasCode(pwd, lo, hi) == \E i \in 1..Len(pwd) : pwd[i] >= lo /\ pwd[i] <= hi
IsAlnum(c) == (c >= 48 /\ c <= 57) \/ (c >= 65 /\ c <= 90) \/ (c >= 97 /\ c <= 122)

is_strong_password(pwd) ==
    /\ Len(pwd) >= 10
    /\ HasCode(pwd, 65, 90)
    /\ HasCode(pwd, 97, 122)
    /\ HasCode(pwd, 48, 57)
    /\ \E i \in 1..Len(pwd) : ~IsAlnum(pwd[i])

\* POST /embed
embed(carrier, payload_zip, encrypt_on, password, mode, salt, nonce) ==
    IF carrier = NoFile THEN Reply(400, <<"Carrier file required">>, <<>>)
    ELSE IF encrypt_on /\ Len(password) = 0
    THEN Reply(400, <<"Password required for encryption">>, <<>>)
    ELSE IF encrypt_on /\ ~is_strong_password(password)
    THEN Reply(400, <<"Password too weak.">>, <<>>)
    ELSE
    LET payload == IF encrypt_on
                   THEN encrypt_payload(payload_zip, password, salt, nonce)
                   ELSE PLND \o payload_zip
    IN  IF mode = "lsb"
        THEN LET payload_for_lsb == frame_of(payload)
                 cap == lsb_capacity_bytes(carrier)
             IN  IF cap < Len(payload_for_lsb)
                 THEN Reply(400, <<"Image capacity too small for LSB embedding.">>, <<>>)
                 ELSE LET stego == embed_lsb(carrier, payload_for_lsb, password)
                      IN  IF ~stego.ok THEN Reply(500, <<stego.msg>>, <<>>)
                          ELSE Reply(200, <<>>, stego.val)
        ELSE Reply(200, <<>>, pack_stego(carrier, payload))

\* Lines 148-156 and 200-208: the dispatch on the tag of the payload; to_zip
\* is whether the route goes on to zipfile.ZipFile or sends the data.
dispatch(payload, password, codec, recovered, to_zip) ==
    IF startswith(payload, ENCR)
    THEN IF Len(password) = 0
         THEN Reply(400, <<"Password required for encrypted payload">>, <<>>)
         ELSE LET data == decrypt_payload(payload, password)
              IN  IF ~data.ok THEN Reply(500, <<data.msg>>, <<>>)
                  ELSE IF to_zip THEN Handed(data.val, codec, recovered)
                  ELSE Sent(data.val, codec, recovered)
    ELSE IF startswith(payload, PLND)
    THEN IF to_zip THEN Handed(Slice(payload, 4, Len(payload)), codec, recovered)
         ELSE Sent(Slice(payload, 4, Len(payload)), codec, recovered)
    ELSE Reply(400, <<"Unknown payload type">>, <<>>)

\* Lines 136-143 and 192-198: the LSB fallback; wrap is whether the route
\* wraps a failure in "Unable to find embedded payload".
lsb_fallback(full, pwd, wrap, to_zip) ==
    LET payload_with_header == extract_lsb(full, pwd) IN
    IF ~payload_with_header.ok
    THEN IF wrap
         THEN Reply(500, <<"Unable to find embedded payload (neither EOF nor LSB). Details: ",
                           payload_with_header.msg>>, <<>>)
         ELSE Reply(500, <<payload_with_header.msg>>, <<>>)
    ELSE IF ~startswith(payload_with_header.val, MARKER)
    THEN IF wrap
         THEN Reply(500, <<"Unable to find embedded payload (neither EOF nor LSB). Details: ",
                           "LSB payload missing marker">>, <<>>)
         ELSE Reply(500, <<"LSB payload missing marker">>, <<>>)
    ELSE LET ln == from_bytes(Slice(payload_with_header.val, Len(MARKER),
                                    Len(MARKER) + LENGTH_LEN))
             payload == Slice(payload_with_header.val, Len(MARKER) + LENGTH_LEN,
                              Len(MARKER) + LENGTH_LEN + ln)
         IN  dispatch(payload, pwd, "lsb", payload_with_header.val, to_zip)

\* POST /extract_info, up to zf = zipfile.ZipFile(io.BytesIO(data), "r")
extract_info(full, pwd) ==
    IF full = NoFile THEN Reply(400, <<"Stego file required">>, <<>>)
    ELSE LET payload == unpack_stego(full) IN
         IF payload.ok THEN dispatch(payload.val, pwd, "eof", payload.val, TRUE)
         ELSE lsb_fallback(full, pwd, TRUE, TRUE)

\* POST /download_payload
download_payload(full, pwd) ==
    IF full = NoFile THEN Reply(400, <<"Stego file required">>, <<>>)
    ELSE LET payload == unpack_stego(full) IN
         IF payload.ok THEN dispatch(payload.val, pwd, "eof", payload.val, FALSE)
         ELSE lsb_fallback(full, pwd, FALSE, FALSE)

\* POST /download_selected_raw, up to zf = zipfile.ZipFile(io.BytesIO(payload))
download_selected_raw(full, password) ==
    IF full = NoFile THEN Reply(400, <<"400 Bad Request">>, <<>>)
    ELSE
    LET lsb == startswith(full, PNG_SIG)
        payload_with_header == IF lsb THEN extract_lsb(full, password)
                               ELSE unpack_stego(full)
        codec == IF lsb THEN "lsb" ELSE "eof"
    IN  IF ~payload_with_header.ok THEN Reply(400, <<payload_with_header.msg>>, <<>>)
        ELSE IF startswith(payload_with_header.val, ENCR)
        THEN LET payload == decrypt_payload(payload_with_header.val, password)
             IN  IF ~payload.ok THEN Reply(400, <<payload.msg>>, <<>>)
                 ELSE Handed(payload.val, codec, payload_with_header.val)
        ELSE Handed(payload_with_header.val, codec, payload_with_header.val)

\* ------------------------------------------------------------------ inputs
\* Envelopes handed to pack_stego: empty, b"world", b"PLND" + b"PK", the
\* marker itself, and a buffer with the marker inside.
Envelopes ==
    { <<>>,
      <<119, 111, 114, 108, 100>>,
      <<80, 76, 78, 68, 80, 75>>,
      MARKER,
      <<7>> \o MARKER \o <<0, 0, 0, 0, 0, 0, 0, 1, 9>> }

\* Carrier files for EOF mode: empty, b"hello", a buffer ending in the marker,
\* a buffer holding a complete earlier frame, a frame whose declared length
\* runs past the end, a frame with a length above 2^56, a marker cut short of
\* its length field, and a buffer with two markers.
Carriers ==
    { <<>>,
      <<104, 101, 108, 108, 111>>,
      <<1, 2>> \o MARKER,
      MARKER \o <<0, 0, 0, 0, 0, 0, 0, 2, 65, 66, 67>>,
      <<3>> \o MARKER \o <<0, 0, 0, 0, 0, 0, 0, 5, 65, 66>>,
      MARKER \o <<1, 0, 0, 0, 0, 0, 0, 0, 65>>,
      <<4>> \o MARKER \o <<0, 0, 0, 0>>,
      MARKER \o <<0, 0, 0, 0, 0, 0, 0, 1, 65>> \o MARKER \o <<0, 0, 0>> }

\* ------------------------------------------------------------------- state
VARIABLES
    op,         \* the last operation that ran, "" before the first
    container,  \* EOF mode: the container (carrier plus appended frames)
    packed,     \* EOF mode: the envelopes appended so far, oldest first
    eofOut,     \* EOF mode: the outcome of the last unpack_stego
    image,      \* LSB mode: the image file (carrier, then stego image)
    before,     \* LSB mode: the image file handed to the last embed_lsb
    embedded,   \* LSB mode: the <<frame, password>> of each embed_lsb that
                \*           returned, oldest first
    lsbArg,     \* LSB mode: <<payload, password>> of the last call
    lsbOut,     \* LSB mode: the outcome of the last call
    failures,   \* LSB mode: every failed marker check of extract_lsb so far,
                \*           as [stego, out]: whether the image had been
                \*           embedded into, and the outcome
    envelope,   \* cipher: the envelope at hand
    encArg,     \* cipher: <<payload, password>> of the encrypt_payload that
                \*         made the envelope, <<>> for an envelope received
    decArg,     \* cipher: the password of the last decrypt_payload
    decOut,     \* cipher: the outcome of the last decrypt_payload
    file,       \* app: the file the user holds (carrier, then stego file)
    req,        \* app: the form fields of the last request
    resp,       \* app: the response of the last request
    nEmbed      \* app: the number of /embed requests that returned a file

eofVars == <<container, packed, eofOut>>
lsbVars == <<image, before, embedded, lsbArg, lsbOut, failures>>
cipherVars == <<envelope, encArg, decArg, decOut>>
appVars == <<file, req, resp, nEmbed>>
vars == <<op, eofVars, lsbVars, cipherVars, appVars>>

NoOut == Raise(0, "", "")

\* The state of a component that a specification does not exercise.
IdleEOF ==
    /\ container = <<>>
    /\ packed = <<>>
    /\ eofOut = NoOut

IdleLSB ==
    /\ image = <<>>
    /\ before = <<>>
    /\ embedded = <<>>
    /\ lsbArg = <<>>
    /\ lsbOut = NoOut
    /\ failures = {}

IdleCipher ==
    /\ envelope = <<>>
    /\ encArg = <<>>
    /\ decArg = <<>>
    /\ decOut = NoOut

IdleApp ==
    /\ file = <<>>
    /\ req = <<>>
    /\ resp = Reply(0, <<>>, <<>>)
    /\ nEmbed = 0

InitEOF ==
    /\ op = ""
    /\ container \in Carriers
    /\ packed = <<>>
    /\ eofOut = NoOut
    /\ IdleLSB
    /\ IdleCipher
    /\ IdleApp

\* stego = pack_stego(carrier_bytes, payload)
Pack(E) ==
    /\ Len(packed) < MaxPacks
    /\ container' = pack_stego(container, E)
    /\ packed' = Append(packed, E)
    /\ eofOut' = NoOut
    /\ op' = "pack_stego"
    /\ UNCHANGED <<lsbVars, cipherVars, appVars>>

\* payload = unpack_stego(full)
Unpack ==
    /\ eofOut' = unpack_stego(container)
    /\ op' = "unpack_stego"
    /\ UNCHANGED <<container, packed>>
    /\ UNCHANGED <<lsbVars, cipherVars, appVars>>

NextEOF ==
    \/ \E E \in Envelopes : Pack(E)
    \/ Unpack

SpecEOF == InitEOF /\ [][NextEOF]_vars

\* ------------------------------------------------------------- LSB machine
\* Envelopes framed for LSB mode: empty, b"world", b"PLND" + b"PK"; the frames
\* are 13, 18 and 19 bytes long.
LsbEnvelopes ==
    { <<>>,
      <<119, 111, 114, 108, 100>>,
      <<80, 76, 78, 68, 80, 75>> }

Frames == { frame_of(E) : E \in LsbEnvelopes }

InitLSB ==
    /\ op = ""
    /\ image \in Images \cup {NotAnImage}
    /\ before = <<>>
    /\ embedded = <<>>
    /\ lsbArg = <<>>
    /\ lsbOut = NoOut
    /\ failures = {}
    /\ IdleEOF
    /\ IdleCipher
    /\ IdleApp

\* cap = lsb_capacity_bytes(carrier_bytes)
LsbCapacity ==
    /\ op' = "lsb_capacity_bytes"
    /\ lsbOut' = Ok(lsb_capacity_bytes(image))
    /\ lsbArg' = <<>>
    /\ UNCHANGED <<image, before, embedded, failures>>
    /\ UNCHANGED <<eofVars, cipherVars, appVars>>

\* stego = embed_lsb(carrier_bytes, payload_for_lsb, pwd); the stego image is
\* the file from then on.
LsbEmbed(F, pwd) ==
    /\ Len(embedded) < MaxEmbeds
    /\ LET r == embed_lsb(image, F, pwd) IN
        /\ lsbOut' = r
        /\ image' = IF r.ok THEN r.val ELSE image
        /\ embedded' = IF r.ok THEN Append(embedded, <<F, pwd>>) ELSE embedded
    /\ before' = image
    /\ lsbArg' = <<F, pwd>>
    /\ op' = "embed_lsb"
    /\ UNCHANGED failures
    /\ UNCHANGED <<eofVars, cipherVars, appVars>>

\* payload_with_header = extract_lsb(full, pwd)
LsbExtract(pwd) ==
    /\ LET r == extract_lsb(image, pwd) IN
        /\ lsbOut' = r
        /\ failures' = IF r.at = 230
                        THEN failures \cup {[stego |-> embedded # <<>>, out |-> r]}
                        ELSE failures
    /\ lsbArg' = <<<<>>, pwd>>
    /\ op' = "extract_lsb"
    /\ UNCHANGED <<image, before, embedded>>
    /\ UNCHANGED <<eofVars, cipherVars, appVars>>

NextLSB ==
    \/ LsbCapacity
    \/ \E F \in Frames, pwd \in Passwords : LsbEmbed(F, pwd)
    \/ \E pwd \in Passwords : LsbExtract(pwd)

SpecLSB == InitLSB /\ [][NextLSB]_vars

\* ---------------------------------------------------------- cipher machine
\* What secrets.token_bytes may return: two salts and two nonces stand for
\* the random source.
Salts  == { [ i \in 1..SALT_LEN |-> i ] \o <<>>,
            [ i \in 1..SALT_LEN |-> 200 - i ] \o <<>> }
Nonces == { [ i \in 1..NONCE_LEN |-> 3 * i ] \o <<>>,
            [ i \in 1..NONCE_LEN |-> 90 + i ] \o <<>> }

\* Payloads: empty, b"PK", b"secret"
Payloads == { <<>>, <<80, 75>>, <<115, 101, 99, 114, 101, 116>> }

Sealed == encrypt_payload(<<80, 75>>, PwWeak,
                          [ i \in 1..SALT_LEN |-> i ] \o <<>>,
                          [ i \in 1..NONCE_LEN |-> 3 * i ] \o <<>>)

\* Envelopes as they can arrive from a carrier: empty, plaintext, the bare
\* tag, a tag with 10 bytes, a tag with a salt and 9 bytes, a tag with salt
\* and nonce only, a tag with salt, nonce and 15 bytes, and an encrypted
\* envelope with its last byte missing or one ciphertext byte changed.
ReceivedEnvelopes ==
    { <<>>,
      PLND \o <<80, 75>>,
      ENCR,
      SubSeq(Sealed, 1, 14),
      SubSeq(Sealed, 1, 29),
      SubSeq(Sealed, 1, 32),
      SubSeq(Sealed, 1, 47),
      SubSeq(Sealed, 1, Len(Sealed) - 1),
      [Sealed EXCEPT ![33] = (@ + 1) % 256] }

InitCipher ==
    /\ op = ""
    /\ envelope \in ReceivedEnvelopes
    /\ encArg = <<>>
    /\ decArg = <<>>
    /\ decOut = NoOut
    /\ IdleEOF
    /\ IdleLSB
    /\ IdleApp

\* payload = encrypt_payload(payload_zip, pwd)
Encrypt(P, pwd, salt, nonce) ==
    /\ envelope' = encrypt_payload(P, pwd, salt, nonce)
    /\ encArg' = <<P, pwd>>
    /\ decArg' = <<>>
    /\ decOut' = NoOut
    /\ op' = "encrypt_payload"
    /\ UNCHANGED <<eofVars, lsbVars, appVars>>

\* data = decrypt_payload(payload, pwd)
Decrypt(pwd) ==
    /\ decOut' = decrypt_payload(envelope, pwd)
    /\ decArg' = pwd
    /\ op' = "decrypt_payload"
    /\ UNCHANGED <<envelope, encArg>>
    /\ UNCHANGED <<eofVars, lsbVars, appVars>>

NextCipher ==
    \/ \E P \in Payloads, pwd \in Passwords, salt \in Salts, nonce \in Nonces :
          Encrypt(P, pwd, salt, nonce)
    \/ \E pwd \in Passwords : Decrypt(pwd)

SpecCipher == InitCipher /\ [][NextCipher]_vars

\* --------------------------------------------------------- cipher claims
\* C3: encryption round trip.  decrypt_payload of encrypt_payload(P, pwd)
\* under pwd returns exactly P; under any other password it raises the
\* authentication failure and returns nothing.
C3_EncryptionRoundTrip ==
    (op = "decrypt_payload" /\ encArg # <<>>) =>
        IF decArg = encArg[2]
        THEN decOut.ok /\ decOut.val = encArg[1]
        ELSE ~decOut.ok /\ decOut.exc = "InvalidTag" /\ decOut.val = <<>>

\* A non-empty payload decrypted under its password.
C3_Witness ==
    /\ op = "decrypt_payload" /\ encArg # <<>>
    /\ decArg = encArg[2] /\ decOut.ok /\ Len(decOut.val) > 0

\* A decryption under another password that was refused.
C3_WitnessRefused ==
    /\ op = "decrypt_payload" /\ encArg # <<>>
    /\ decArg # encArg[2] /\ decOut.exc = "InvalidTag"

\* C8: every decode operation checks length bounds before slicing.  When
\* unpack_stego or extract_lsb returns, the 13-byte header and the declared
\* region lie inside the input; decrypt_payload hands salt and nonce on only
\* when each was read in full, 16 and 12 bytes, and rejects a shorter input
\* before that.
C8_BoundsCheckedBeforeSlicing ==
    /\ (op = "unpack_stego" /\ eofOut.ok) =>
          \E i \in 0..Len(container) :
              /\ i + 13 + Len(eofOut.val) <= Len(container)
              /\ SubSeq(container, i + 1, i + 5) = MARKER
    /\ (op = "extract_lsb" /\ lsbOut.ok) =>
          /\ Len(lsbOut.val) >= 13
          /\ Len(lsbOut.val) * 8 <= Len(image) - 6
    /\ (op = "decrypt_payload" /\ decOut.called) =>
          /\ Len(decOut.salt) = SALT_LEN
          /\ Len(decOut.nonce) = NONCE_LEN

\* ------------------------------------------------------------- app machine
\* Archives built by create_payload_zip_from_files: two opaque buffers.
Zips == { <<80, 75>>, <<80, 75, 5, 6>> }

\* Uploaded carriers: b"hello", a 7x8 image (168 bits, 21 bytes) and a 13x13
\* image (507 bits, 63 bytes, which holds an encrypted 2-byte archive).
AppCarriers ==
    { NotAnImage,
      encode_png(7, 8, White(168)),
      encode_png(13, 13, Mixed(507)) }

InitApp ==
    /\ op = ""
    /\ file \in AppCarriers \cup {NoFile}
    /\ req = <<>>
    /\ resp = Reply(0, <<>>, <<>>)
    /\ nEmbed = 0
    /\ IdleEOF
    /\ IdleLSB
    /\ IdleCipher

\* POST /embed; the file sent back is the one the user holds from then on.
EmbedRoute(zip, encrypt_on, pwd, mode, salt, nonce) ==
    /\ nEmbed < MaxEmbedRequests
    /\ LET r == embed(file, zip, encrypt_on, pwd, mode, salt, nonce) IN
        /\ resp' = r
        /\ file' = IF r.status = 200 THEN r.data ELSE file
        /\ nEmbed' = IF r.status = 200 THEN nEmbed + 1 ELSE nEmbed
    /\ req' = [password |-> pwd, encrypt |-> encrypt_on, mode |-> mode]
    /\ op' = "embed"
    /\ UNCHANGED <<eofVars, lsbVars, cipherVars>>

\* POST /extract_info
ExtractInfo(pwd) ==
    /\ resp' = extract_info(file, pwd)
    /\ req' = [password |-> pwd]
    /\ op' = "extract_info"
    /\ UNCHANGED <<file, nEmbed>>
    /\ UNCHANGED <<eofVars, lsbVars, cipherVars>>

\* POST /download_payload
DownloadPayload(pwd) ==
    /\ resp' = download_payload(file, pwd)
    /\ req' = [password |-> pwd]
    /\ op' = "download_payload"
    /\ UNCHANGED <<file, nEmbed>>
    /\ UNCHANGED <<eofVars, lsbVars, cipherVars>>

\* POST /download_selected_raw
DownloadSelectedRaw(pwd) ==
    /\ resp' = download_selected_raw(file, pwd)
    /\ req' = [password |-> pwd]
    /\ op' = "download_selected_raw"
    /\ UNCHANGED <<file, nEmbed>>
    /\ UNCHANGED <<eofVars, lsbVars, cipherVars>>

NextApp ==
    \/ \E zip \in Zips, encrypt_on \in BOOLEAN, pwd \in Passwords,
          mode \in {"eof", "lsb"}, salt \in Salts, nonce \in Nonces :
          EmbedRoute(zip, encrypt_on, pwd, mode, salt, nonce)
    \/ \E pwd \in Passwords : ExtractInfo(pwd)
    \/ \E pwd \in Passwords : DownloadPayload(pwd)
    \/ \E pwd \in Passwords : DownloadSelectedRaw(pwd)

SpecApp == InitApp /\ [][NextApp]_vars

\* -------------------------------------------------------------- app claims
Extraction == {"extract_info", "download_payload", "download_selected_raw"}

\* The envelope a route recovered: what its codec returned, less the marker
\* and the length when the codec is extract_lsb.
RecoveredEnvelope ==
    IF resp.codec = "lsb" THEN SubSeq(resp.recovered, 14, Len(resp.recovered))
    ELSE resp.recovered

\* C5: envelope unwrap on extraction.  Whenever one of the three extraction
\* routes passes data on (to zipfile or to the client), the envelope it
\* recovered starts with "PLND" and the data are the bytes after the tag, or
\* it starts with "ENCR", the password is not empty and the data are what
\* decrypt_payload returns; no tagged, framed or encrypted bytes pass.
C5_EnvelopeUnwrapped ==
    (op \in Extraction /\ resp.status \in {0, 200} /\ resp.codec # "") =>
        LET E == RecoveredEnvelope IN
        \/ /\ startswith(E, PLND)
           /\ resp.data = SubSeq(E, 5, Len(E))
        \/ /\ startswith(E, ENCR)
           /\ Len(req.password) > 0
           /\ decrypt_payload(E, req.password).ok
           /\ resp.data = decrypt_payload(E, req.password).val

\* The same for /extract_info and /download_payload alone.
C5_TwoRoutesUnwrap ==
    op \in {"extract_info", "download_payload"} => C5_EnvelopeUnwrapped

\* An encrypted envelope recovered through extract_lsb and decrypted.
C5_TwoRoutesWitness ==
    /\ op \in {"extract_info", "download_payload"}
    /\ resp.status \in {0, 200} /\ resp.codec = "lsb"
    /\ startswith(RecoveredEnvelope, ENCR)

\* ------------------------------------------------------------ EOF claims
\* The offsets at which the marker occurs in the container, read off the
\* bytes one by one.
MarkerAt == { i \in 0..(Len(container) - 5) :
                /\ container[i + 1] = 83 /\ container[i + 2] = 84
                /\ container[i + 3] = 69 /\ container[i + 4] = 71
                /\ container[i + 5] = 48 }

LastMarker == CHOOSE i \in MarkerAt : \A j \in MarkerAt : j <= i

\* The length field after the last marker is beyond every buffer of the model
\* as soon as one of its five high bytes is set.
LenFieldBig == \E k \in 6..10 : container[LastMarker + k] # 0

LenFieldLow == container[LastMarker + 11] * 65536
               + container[LastMarker + 12] * 256
               + container[LastMarker + 13]

\* C1: EOF round trip.  Unpacking the container made by one pack_stego of a
\* carrier C and an envelope P returns exactly P, for every C and P, those
\* containing the marker included.
C1_EofRoundTrip ==
    (op = "unpack_stego" /\ Len(packed) = 1) => eofOut = Ok(packed[1])

\* C7: unpack_stego's outcomes.  No marker, or a last marker with fewer than
\* 13 bytes from its start to the end: "Marker not found or truncated.".
\* Otherwise a declared length running past the end: "Invalid embedded
\* length".  Otherwise exactly container[idx+13 : end] for the last marker;
\* an earlier marker is never used.
C7_UnpackOutcomes ==
    op = "unpack_stego" =>
        IF MarkerAt = {} \/ LastMarker + 5 + 8 > Len(container)
        THEN eofOut = Raise(131, "ValueError", "Marker not found or truncated.")
        ELSE IF LenFieldBig \/ LastMarker + 13 + LenFieldLow > Len(container)
        THEN eofOut = Raise(137, "ValueError",
                            "Invalid embedded length (corrupted container).")
        ELSE eofOut = Ok([ i \in 1..LenFieldLow |-> container[LastMarker + 13 + i] ])

\* An unpack that failed on the last marker although an earlier marker, with
\* a frame that validates, was there to fall back on.
C7_Witness ==
    /\ op = "unpack_stego"
    /\ ~eofOut.ok
    /\ Cardinality(MarkerAt) >= 2
    /\ \E i \in MarkerAt : /\ i + 13 <= Len(container)
                            /\ i + 13 + from_bytes(Slice(container, i + 5, i + 13))
                                 <= Len(container)

\* C11: the most recently appended frame wins.  After any number of
\* pack_stego calls on a carrier, unpack_stego of the container returns the
\* envelope of the last call, whatever the earlier frames and whatever
\* marker-like bytes the carrier held.
C11_LastFrameWins ==
    (op = "unpack_stego" /\ packed # <<>>) => eofOut = Ok(packed[Len(packed)])

\* ------------------------------------------------------------ LSB claims
LastFrame == embedded[Len(embedded)][1]
LastPwd   == embedded[Len(embedded)][2]

\* Width, height and channel bytes of an image file, read off its bytes.
IsImage(f) == Len(f) >= 6 /\ f[1] = 137 /\ f[2] = 80 /\ f[3] = 78 /\ f[4] = 71
ChannelCount(f) == f[5] * f[6] * 3
ChannelByte(f, k) == f[6 + k]

\* C2: LSB round trip.  After embed_lsb(I, F, pwd) returned, extract_lsb of the
\* stego image with the same password (empty or not) returns exactly F.
C2_LsbRoundTrip ==
    (op = "extract_lsb" /\ embedded # <<>> /\ lsbArg[2] = LastPwd)
        => lsbOut = Ok(LastFrame)

\* A frame embedded and read back under a non-empty password.
C2_Witness ==
    /\ op = "extract_lsb" /\ embedded # <<>>
    /\ lsbArg[2] = LastPwd /\ LastPwd # <<>>
    /\ lsbOut.ok /\ Len(lsbOut.val) > 13

\* C4 as claimed: extract_lsb of a stego image under a password other than
\* the one it was embedded under always fails at the marker check.
C4_WrongPasswordAlwaysMarkerError ==
    (op = "extract_lsb" /\ embedded # <<>> /\ lsbArg[2] # LastPwd)
        => lsbOut.at = 230

\* The bits of b"STEG0", most significant first.
MarkerBits == << 0,1,0,1,0,0,1,1,  0,1,0,1,0,1,0,0,  0,1,0,0,0,1,0,1,
                 0,1,0,0,0,1,1,1,  0,0,1,1,0,0,0,0 >>

\* The least significant bits of the image at the first 40 positions of the
\* ordering of password pwd spell the marker.
SpellsMarker(f, pwd) ==
    \A i \in 1..40 :
        ChannelByte(f, ordering(ChannelCount(f), pwd)[i] + 1) % 2 = MarkerBits[i]

\* C4 (amended): extract_lsb of a stego image under another password fails at
\* the marker check exactly when the bits at the first 40 positions of that
\* password's ordering do not spell the marker; otherwise it fails on the
\* declared length or returns bytes that start with the marker.
C4_WrongPasswordOutcome ==
    (op = "extract_lsb" /\ embedded # <<>> /\ lsbArg[2] # LastPwd)
        => /\ lsbOut.at = 230 <=> ~SpellsMarker(image, lsbArg[2])
           /\ lsbOut.at \in {230, 236} \/ (lsbOut.ok /\ startswith(lsbOut.val, MARKER))

\* A wrong-password read that failed at the marker check.
C4_Witness ==
    /\ op = "extract_lsb" /\ embedded # <<>> /\ lsbArg[2] # LastPwd
    /\ lsbArg[2] # <<>> /\ LastPwd # <<>>
    /\ lsbOut.at = 230

\* A wrong-password read that returned bytes.
C4_Returned ==
    /\ op = "extract_lsb" /\ embedded # <<>> /\ lsbArg[2] # LastPwd
    /\ lsbOut.ok

\* C6: capacity accounting is exact.  lsb_capacity_bytes is (W*H*3) \div 8 for
\* an image and 0 for a buffer that is none; embed_lsb accepts a frame exactly
\* when its length is at most that capacity and raises "Payload too large"
\* otherwise; the pre-check of /embed (cap < len(frame)) rejects the same
\* frames.
C6_CapacityExact ==
    /\ op = "lsb_capacity_bytes" =>
          lsbOut.val = IF IsImage(image) THEN ChannelCount(image) \div 8 ELSE 0
    /\ (op = "embed_lsb" /\ IsImage(before)) =>
          /\ lsbOut.ok <=> Len(lsbArg[1]) <= ChannelCount(before) \div 8
          /\ lsbOut.at = 184 <=> Len(lsbArg[1]) * 8 > ChannelCount(before)
          /\ lsbOut.at = 184 <=> lsb_capacity_bytes(before) < Len(lsbArg[1])

\* A frame of exactly capacity bytes embedded into an image whose bit count is
\* no multiple of 8.
C6_Witness ==
    /\ op = "embed_lsb" /\ IsImage(before) /\ lsbOut.ok
    /\ ChannelCount(before) % 8 # 0
    /\ Len(lsbArg[1]) = ChannelCount(before) \div 8

\* C9: a failed marker check does not tell why.  The outcome of extract_lsb
\* at the marker check is the same for a stego image read under the wrong
\* password and for an image never embedded into, whatever the password and
\* the pixels.
C9_MarkerFailureUniform ==
    \A f, g \in failures : f.out = g.out

\* Marker failures of both kinds were seen, one of them under a password.
C9_Witness ==
    /\ \E f, g \in failures : f.stego /\ ~g.stego
    /\ op = "extract_lsb" /\ lsbOut.at = 230 /\ lsbArg[2] # <<>>

\* C10: an oversize frame is rejected before any write.  When the frame has
\* more bits than the image has channel bytes, embed_lsb raises "Payload too
\* large" with its pixel array as decoded, and no stego image is produced.
C10_OversizeRejectedUntouched ==
    (op = "embed_lsb" /\ IsImage(before)
        /\ Len(lsbArg[1]) * 8 > ChannelCount(before))
        => /\ ~lsbOut.ok /\ lsbOut.at = 184
           /\ lsbOut.flat = [ k \in 1..ChannelCount(before) |-> ChannelByte(before, k) ]
           /\ image = before

\* An oversize frame was offered to an image with odd channel bytes, which a
\* write of a 0 bit would change.
C10_Witness ==
    /\ op = "embed_lsb" /\ IsImage(before)
    /\ Len(lsbArg[1]) * 8 > ChannelCount(before)
    /\ lsbOut.at = 184
    /\ \E k \in 1..ChannelCount(before) : ChannelByte(before, k) % 2 = 1

\* The ordering embed_lsb used in its last call, and the channel positions
\* (0-based) it addressed: one for each bit of the frame.
LastOrdering == ordering(ChannelCount(before), lsbArg[2])
Addressed == { LastOrdering[i] : i \in 1..(8 * Len(lsbArg[1])) }

\* The least significant bit the output image holds at the position frame bit
\* number i (1-based) was sent to.
StoredBit(i) == ChannelByte(image, LastOrdering[i] + 1) % 2

\* The byte the output image holds for frame byte number b (1-based): its
\* eight stored bits weighed with the most significant first.
StoredByte(b) ==
    LET o == 8 * (b - 1)
    IN  StoredBit(o + 1) * 128 + StoredBit(o + 2) * 64 + StoredBit(o + 3) * 32
        + StoredBit(o + 4) * 16 + StoredBit(o + 5) * 8 + StoredBit(o + 6) * 4
        + StoredBit(o + 7) * 2 + StoredBit(o + 8)

\* C12: embedding touches only the addressed least significant bits.  After
\* every embed_lsb that returned, the output image has the width, height and
\* channel count of the input; the upper 7 bits of every channel byte are
\* those of the input; a least significant bit differs from the input only
\* at a position among the first 8 * len(F) of the ordering; the ordering is
\* a bijection on 0..N-1, so the addressed positions are pairwise distinct;
\* and the bits stored at the addressed positions, taken in the ordering and
\* the most significant bit of each byte first, are the frame: no write was
\* overwritten by another.
C12_OnlyAddressedLsbsTouched ==
    (op = "embed_lsb" /\ lsbOut.ok) =>
        LET N == ChannelCount(before) IN
        /\ IsImage(before) /\ IsImage(image)
        /\ image[5] = before[5] /\ image[6] = before[6]
        /\ Len(image) = Len(before) /\ Len(image) = 6 + N
        /\ \A k \in 1..N :
              ChannelByte(image, k) \div 2 = ChannelByte(before, k) \div 2
        /\ \A k \in 1..N :
              ChannelByte(image, k) % 2 # ChannelByte(before, k) % 2
                  => (k - 1) \in Addressed
        /\ Len(LastOrdering) = N
        /\ \A i \in 1..N : LastOrdering[i] \in 0..(N - 1)
        /\ Cardinality({ LastOrdering[i] : i \in 1..N }) = N
        /\ Cardinality(Addressed) = 8 * Len(lsbArg[1])
        /\ \A b \in 1..Len(lsbArg[1]) : StoredByte(b) = lsbArg[1][b]

\* A frame embedded under a password into an image that already held a
\* frame: some addressed bit was flipped, some addressed bit was left as it
\* was, and outside the addressed positions there are bits of both values.
C12_Witness ==
    /\ op = "embed_lsb" /\ lsbOut.ok /\ Len(embedded) = 2
    /\ lsbArg[2] # PwNone
    /\ LastOrdering # range(ChannelCount(before))
    /\ \E k \in 1..ChannelCount(before) :
          /\ (k - 1) \in Addressed
          /\ ChannelByte(image, k) % 2 # ChannelByte(before, k) % 2
    /\ \E k \in 1..ChannelCount(before) :
          /\ (k - 1) \in Addressed
          /\ ChannelByte(image, k) = ChannelByte(before, k)
    /\ \E k \in 1..ChannelCount(before) :
          (k - 1) \notin Addressed /\ ChannelByte(image, k) % 2 = 1
    /\ \E k \in 1..ChannelCount(before) :
          (k - 1) \notin Addressed /\ ChannelByte(image, k) % 2 = 0
    /\ \E k \in 1..ChannelCount(before) : ChannelByte(before, k) >= 2

====
